---- MODULE Spec2Model ----
(***************************************************************************)
(* PROSIT task descriptors (tool/V2.0/task_descriptor.hpp and the          *)
(* out-of-line definitions of GenericTaskDescriptor): one task object, its *)
(* constructors, the deadline map, the lazy probability computation and    *)
(* the scheduling-parameter setters.                                       *)
(*                                                                         *)
(* Each action is one call of a public member function, run to completion. *)
(* The variable `last` records the call that was made last (operation,     *)
(* argument, how it ended, what it returned, the solver whose solve ran),  *)
(* so that properties of calls can be stated.  The h_ variables are        *)
(* history variables: they never influence the program.                    *)
(***************************************************************************)
EXTENDS Integers, FiniteSets, TLC

(* ------------------------------ bounds -------------------------------- *)
\* deadlines offered to insert_deadline / get_probability are 0..MaxDeadline
MaxDeadline == 1
\* budgets and server periods offered are -1..MaxBudget
MaxBudget == 1
\* periods offered to the periodic constructor are 1..MaxPeriod
MaxPeriod == 1
\* get_probability calls that solved and returned, counted since the last
\* change of deadlines or solver
MaxSolves == 2

(* ------------------------- program constants -------------------------- *)
\* highest priority the constructors accept: if (priorityd>99)
MaxPriority == 99
\* the null pointer tested by if(!probability_solver)
NullSolver == 0
\* the probability a new entry is inserted with: entry(deadline,0.0)
Placeholder == 0
\* deadline_step(0) in both GenericTaskDescriptor constructors
InitialDeadlineStep == 0
\* P(0) in the aperiodic constructor
AperiodicP == 0

\* an indeterminate, non-null pointer value: the constructors leave the
\* solver pointer uninitialised
WildPointer == 0 - 1
\* `last.val` of a call that returned no value
NoVal == 0 - 99
\* the trap outcome of an integer division by zero
Trap == 0 - 1

Deadlines == 0..MaxDeadline
\* the solver objects a caller may attach: two, so that one can replace the other
Solvers == {1, 2}
BudgetInputs == (0 - 1)..MaxBudget
PeriodInputs == 1..MaxPeriod
PriorityInputs == {0, MaxPriority, MaxPriority + 1}

\* What unsigned `deadline % 0` can yield: a trap (x86), or some remainder.
DivByZeroOutcomes == {Trap} \cup (0..1)
\* How a call of solve can end.  A call through the indeterminate pointer
\* may in addition crash the process.
SolveOutcomes(s) == IF s = WildPointer THEN {"ok", "failed", "crash"} ELSE {"ok", "failed"}
\* The probability a successful solve writes.  Probabilities are abstract:
\* what solver s computes is written s, which is never the placeholder; a
\* call through the indeterminate pointer may write any of them.
SolveValues(s) == IF s = WildPointer THEN Solvers ELSE {s}
\* How a non-void function that flows off its end (set_server_period) can
\* end once its body has run: it returns, it crashes, or the optimiser,
\* taking the end of the function for unreachable, makes the call throw.
MissingReturnOutcomes == {"returns", "crash", "throws"}

VARIABLES
  kind,                     \* "none" (no object yet), "fp" or "rr"
  periodic, P,              \* GenericTaskDescriptor::periodic, P
  deadline_step,            \* GenericTaskDescriptor::deadline_step
  probabilistic_deadlines,  \* the deadline -> probability map
  probability_solver,       \* the solver pointer
  solved,                   \* the cache-validity flag
  priority,                 \* FixedPriorityTaskDescriptor::priority
  Q, Ts,                    \* ResourceReservationTaskDescriptor::Q, Ts
  crashed,                  \* the process was killed
  last,                     \* the last call
  h_registered,             \* solvers that were told register_task(this)
  h_inserted,               \* deadlines that were ever inserted successfully
  h_stale,                  \* no solve succeeded since the last successful insert
  h_solves,                 \* get_probability calls that had the attached solver
                            \* solve and returned a probability, since the last
                            \* successful insert_deadline or set_solver
  h_gets,                   \* get_probability calls on a registered deadline
                            \* since the last set_solver (2: two or more)
  h_ctor,                   \* the constructor that built the task
  h_ctor_period,            \* the period given to the periodic constructor
  registry,                 \* QoSFactory::qos_fun_factory: type name -> builder
  h_latest,                 \* type name -> the builder last passed to register_type
  h_init,                   \* StandardQoSFun::init() has run
  qosfun,                   \* the QoSFun object constructed last
  qlast,                    \* the last call made to the QoS function framework
  t_pc, t_arg, t_found,     \* threads inside get_probability: position,
  t_res                     \* argument, iterator found, how the call ended

\* the variables of the QoS function framework and of the threads
others == <<registry, h_latest, h_init, qosfun, qlast, t_pc, t_arg, t_found,
           t_res>>

\* the variables of the task descriptor
task == <<kind, periodic, P, deadline_step, probabilistic_deadlines,
          probability_solver, solved, priority, Q, Ts, crashed, last,
          h_registered, h_inserted, h_stale, h_solves, h_gets, h_ctor,
          h_ctor_period>>

vars == <<task, others>>

generic == <<periodic, P, deadline_step, probabilistic_deadlines,
             probability_solver, solved>>
history == <<h_registered, h_inserted, h_stale, h_solves, h_gets, h_ctor,
             h_ctor_period>>

\* a call: op(arg) ended as res and returned val; solve was called through the
\* pointer inv (NullSolver: not called) and ended as out
Call(op, arg, res, val, inv, out) ==
  [op |-> op, arg |-> arg, res |-> res, val |-> val, inv |-> inv, out |-> out]
\* a call that does not reach the solver
Plain(op, arg, res, val) == Call(op, arg, res, val, NullSolver, "none")

Keys == DOMAIN probabilistic_deadlines
EmptyMap == [d \in {} |-> Placeholder]

\* the largest int
IntMax == 2147483647
\* unsigned int -> int, as g++ converts it (modulo 2^32): u - 2^32 above IntMax
ToInt(u) == IF u <= IntMax THEN u ELSE ((u - IntMax) - IntMax) - 2

(* ---------------------------------------------------------------------- *)
(* The values of the QoS function framework (standard_qosfun.cpp).        *)
(* A double is an integer number of ticks of 0.05, or NaN; the result of  *)
(* the quadratic function is in squared ticks (0.0025).                   *)
(* ---------------------------------------------------------------------- *)
\* 1.0 in ticks
One == 20
\* the double that is not a number: every ordered comparison with it is false
NaN == 0 - 999
\* a field the configuration element does not have
Missing == 0 - 998

\* a < b, a > b, a <= b on doubles
Less(a, b) == a # NaN /\ b # NaN /\ a < b
Greater(a, b) == Less(b, a)
LessEq(a, b) == a # NaN /\ b # NaN /\ a <= b
\* a + b, a - b, a * b on doubles
Add(a, b) == IF a = NaN \/ b = NaN THEN NaN ELSE a + b
Sub(a, b) == IF a = NaN \/ b = NaN THEN NaN ELSE a - b
Mul(a, b) == IF a = NaN \/ b = NaN THEN NaN ELSE a * b

\* the registry before any registration, and the absence of a QoSFun
NoBuilders == [n \in {} |-> "none"]
NoQoSFun == [type |-> "none", scale |-> 0, pmin |-> 0, pmax |-> 0, offset |-> 0]
\* the record of a call to the framework: operation, builder or type name,
\* parameter bundle or object, probability, how it ended, value returned
QCall(op, who, par, prob, res, val) ==
  [op |-> op, who |-> who, par |-> par, prob |-> prob, res |-> res, val |-> val]
NoBundle == [type |-> "none", scale |-> 0, pmin |-> 0, pmax |-> 0, offset |-> 0]

\* the threads that call get_probability on the one task
Threads == {1, 2}

(* ---------------------------------------------------------------------- *)
(* Construction.  No object exists in the initial state.                  *)
(* ---------------------------------------------------------------------- *)
Init ==
  /\ registry = NoBuilders
  /\ h_latest = NoBuilders
  /\ h_init = FALSE
  /\ qosfun = NoQoSFun
  /\ qlast = QCall("none", "none", NoBundle, 0, "ok", NoVal)
  /\ t_pc = [t \in Threads |-> "idle"]
  /\ t_arg = [t \in Threads |-> 0]
  /\ t_found = [t \in Threads |-> FALSE]
  /\ t_res = [t \in Threads |-> "none"]
  /\ kind = "none"
  /\ periodic = FALSE
  /\ P = AperiodicP
  /\ deadline_step = InitialDeadlineStep
  /\ probabilistic_deadlines = EmptyMap
  /\ probability_solver = NullSolver
  /\ solved = FALSE
  /\ priority = 0
  /\ Q = 0
  /\ Ts = 0
  /\ crashed = FALSE
  /\ last = Plain("none", NoVal, "ok", NoVal)
  /\ h_registered = {}
  /\ h_inserted = {}
  /\ h_stale = FALSE
  /\ h_solves = 0
  /\ h_gets = 0
  /\ h_ctor = "none"
  /\ h_ctor_period = AperiodicP

\* The members a GenericTaskDescriptor constructor sets: name, C, Z, verbose,
\* periodic, P, deadline_step.  The map is default-constructed (empty).  The
\* solver pointer and the solved flag are in no initialiser list: their
\* values are indeterminate.
GenericTaskDescriptor(isPeriodic, Pd) ==
  /\ periodic' = isPeriodic
  /\ P' = Pd
  /\ deadline_step' = InitialDeadlineStep
  /\ probabilistic_deadlines' = EmptyMap
  /\ probability_solver' \in {NullSolver, WildPointer}
  /\ solved' \in BOOLEAN
  /\ h_ctor' = IF isPeriodic THEN "periodic" ELSE "aperiodic"
  /\ h_ctor_period' = Pd

\* if (priorityd>99) EXC_PRINT_2(...); priority = priorityd;
PriorityOutOfRange(priorityd) == priorityd > MaxPriority

\* FixedPriorityTaskDescriptor(nm, Cd, Zd, priorityd)
FixedPriorityAperiodic ==
  /\ kind = "none" /\ ~crashed
  /\ UNCHANGED others
  /\ \E priorityd \in PriorityInputs :
       IF PriorityOutOfRange(priorityd)
       THEN /\ last' = Plain("FixedPriorityAperiodic", priorityd, "PriorityOutOfRange", NoVal)
            /\ UNCHANGED <<kind, generic, priority, h_ctor, h_ctor_period>>
       ELSE /\ GenericTaskDescriptor(FALSE, AperiodicP)
            /\ kind' = "fp"
            /\ priority' = priorityd
            /\ last' = Plain("FixedPriorityAperiodic", priorityd, "ok", NoVal)
  /\ UNCHANGED <<Q, Ts, crashed, h_registered, h_inserted, h_stale, h_solves, h_gets>>

\* FixedPriorityTaskDescriptor(nm, Cd, Pd, priorityd)
FixedPriorityPeriodic ==
  /\ kind = "none" /\ ~crashed
  /\ UNCHANGED others
  /\ \E priorityd \in PriorityInputs, Pd \in PeriodInputs :
       IF PriorityOutOfRange(priorityd)
       THEN /\ last' = Plain("FixedPriorityPeriodic", priorityd, "PriorityOutOfRange", NoVal)
            /\ UNCHANGED <<kind, generic, priority, h_ctor, h_ctor_period>>
       ELSE /\ GenericTaskDescriptor(TRUE, Pd)
            /\ kind' = "fp"
            /\ priority' = priorityd
            /\ last' = Plain("FixedPriorityPeriodic", priorityd, "ok", NoVal)
  /\ UNCHANGED <<Q, Ts, crashed, h_registered, h_inserted, h_stale, h_solves, h_gets>>

\* double(q)/double(t) > 1.0 in IEEE-754 arithmetic: x/0 is +inf for x > 0,
\* -inf for x < 0 and NaN for x = 0, and every comparison with NaN is false
RatioExceedsOne(q, t) ==
  IF t = 0 THEN q > 0
  ELSE IF t > 0 THEN q > t
  ELSE q < t

\* ResourceReservationTaskDescriptor(nm, Cd, Zd, Qd, Tsd)
ResourceReservation ==
  /\ kind = "none" /\ ~crashed
  /\ UNCHANGED others
  /\ \E Qd \in BudgetInputs, Tsd \in BudgetInputs :
       IF RatioExceedsOne(Qd, Tsd)
       THEN /\ last' = Plain("ResourceReservation", <<Qd, Tsd>>, "ServerPeriodTooSmall", NoVal)
            /\ UNCHANGED <<kind, generic, Q, Ts, h_ctor, h_ctor_period>>
       ELSE /\ GenericTaskDescriptor(FALSE, AperiodicP)
            /\ kind' = "rr"
            /\ Q' = Qd
            /\ Ts' = Tsd
            /\ last' = Plain("ResourceReservation", <<Qd, Tsd>>, "ok", NoVal)
  /\ UNCHANGED <<priority, crashed, h_registered, h_inserted, h_stale, h_solves, h_gets>>

(* ---------------------------------------------------------------------- *)
(* GenericTaskDescriptor: deadlines, solver, probabilities.               *)
(* ---------------------------------------------------------------------- *)

\* deadline%deadline_step; with deadline_step = 0 the behaviour is undefined
\* and `ub` is what the division produced
Remainder(deadline, ub) ==
  IF deadline_step = 0 THEN ub ELSE deadline % deadline_step

\* DeadlineProbabilityMap::insert(entry) of a key that is not in the map
MapInsert(m, deadline) ==
  [d \in DOMAIN m \cup {deadline} |-> IF d \in DOMAIN m THEN m[d] ELSE Placeholder]

\* void GenericTaskDescriptor::insert_deadline(deadline): how the call ends
\* and the map it leaves, `ub` being the outcome of a division by zero
insert_deadline_body(deadline, ub) ==
  LET r == Remainder(deadline, ub) IN
  IF r = Trap
  THEN [res |-> "crash", map |-> probabilistic_deadlines]
  ELSE IF r # 0
  THEN [res |-> "WrongDeadline", map |-> probabilistic_deadlines]
  ELSE IF deadline \in Keys
  THEN [res |-> "CannotCreate", map |-> probabilistic_deadlines]
  ELSE [res |-> "ok", map |-> MapInsert(probabilistic_deadlines, deadline)]

insert_deadline ==
  /\ kind # "none" /\ ~crashed
  /\ UNCHANGED others
  /\ \E deadline \in Deadlines, ub \in DivByZeroOutcomes :
       LET b == insert_deadline_body(deadline, ub) IN
       /\ probabilistic_deadlines' = b.map
       /\ crashed' = (b.res = "crash")
       /\ last' = Plain("insert_deadline", deadline, b.res, NoVal)
       /\ h_inserted' = IF b.res = "ok" THEN h_inserted \cup {deadline} ELSE h_inserted
       /\ h_stale' = IF b.res = "ok" THEN TRUE ELSE h_stale
       /\ h_solves' = IF b.res = "ok" THEN 0 ELSE h_solves
  /\ UNCHANGED <<kind, periodic, P, deadline_step, probability_solver, solved,
                 priority, Q, Ts, h_registered, h_gets, h_ctor, h_ctor_period>>

\* Solver::solve(probabilistic_deadlines, deadline_step), called through the
\* pointer s: it ends as `out` says; a successful solve has written the
\* probability v into every entry of the map, a failed one throws
solve(s, out, v) ==
  IF out = "ok"
  THEN [res |-> "ok", inv |-> s, out |-> out, map |-> [d \in Keys |-> v]]
  ELSE [res |-> IF out = "crash" THEN "crash" ELSE "SolverFailed",
        inv |-> s, out |-> out, map |-> probabilistic_deadlines]

\* a call that ended as res without reaching the solver
NoSolve(res) ==
  [res |-> res, inv |-> NullSolver, out |-> "none", map |-> probabilistic_deadlines]

\* compute_probability with the solver's failure caught and dropped
compute_probability_swallow(out, v) ==
  IF probability_solver = NullSolver THEN NoSolve("SolverUnset")
  ELSE IF Keys = {} THEN NoSolve("NoDeadline")
  ELSE IF solved THEN NoSolve("ok")
  ELSE [solve(probability_solver, out, v) EXCEPT
          !.res = IF @ = "SolverFailed" THEN "ok" ELSE @]

\* void GenericTaskDescriptor::compute_probability(): how the call ends, the
\* pointer through which it called solve and the map it leaves
compute_probability_body(out, v) ==
  IF probability_solver = NullSolver THEN NoSolve("SolverUnset")
  ELSE IF Keys = {} THEN NoSolve("NoDeadline")
  ELSE IF solved THEN NoSolve("ok")
  ELSE solve(probability_solver, out, v)

\* get_probability with the test of the iterator inverted
get_probability_inverted(deadline, out, v) ==
  LET found == deadline \in Keys
      c == IF ~solved THEN compute_probability_body(out, v) ELSE NoSolve("ok")
  IN IF c.res # "ok"
     THEN [res |-> c.res, val |-> NoVal, inv |-> c.inv, out |-> c.out, map |-> c.map]
     ELSE IF found
     THEN [res |-> "NotExist", val |-> NoVal, inv |-> c.inv, out |-> c.out, map |-> c.map]
     ELSE [res |-> "ok", val |-> Placeholder, inv |-> c.inv, out |-> c.out, map |-> c.map]

\* double GenericTaskDescriptor::get_probability(deadline): the iterator is
\* taken first, then compute_probability() runs if the task is not solved,
\* then the iterator is tested and dereferenced
get_probability_body(deadline, out, v) ==
  LET found == deadline \in Keys
      c == IF ~solved THEN compute_probability_body(out, v) ELSE NoSolve("ok")
  IN IF c.res # "ok"
     THEN [res |-> c.res, val |-> NoVal, inv |-> c.inv, out |-> c.out, map |-> c.map]
     ELSE IF ~found
     THEN [res |-> "NotExist", val |-> NoVal, inv |-> c.inv, out |-> c.out, map |-> c.map]
     ELSE [res |-> "ok", val |-> c.map[deadline], inv |-> c.inv, out |-> c.out, map |-> c.map]

compute_probability ==
  /\ kind # "none" /\ ~crashed
  /\ UNCHANGED others
  /\ \E out \in SolveOutcomes(probability_solver), v \in SolveValues(probability_solver) :
       LET b == compute_probability_body(out, v) IN
       /\ probabilistic_deadlines' = b.map
       /\ crashed' = (b.res = "crash")
       /\ last' = Call("compute_probability", NoVal, b.res, NoVal, b.inv, b.out)
       /\ h_stale' = IF b.out = "ok" THEN FALSE ELSE h_stale
  /\ UNCHANGED <<kind, periodic, P, deadline_step, probability_solver, solved,
                 priority, Q, Ts, h_registered, h_inserted, h_solves, h_gets,
                 h_ctor, h_ctor_period>>

get_probability ==
  /\ kind # "none" /\ ~crashed
  /\ UNCHANGED others
  /\ \E deadline \in Deadlines, out \in SolveOutcomes(probability_solver),
        v \in SolveValues(probability_solver) :
       LET b == get_probability_body(deadline, out, v)
           counted == b.inv \in Solvers /\ b.out = "ok" /\ b.res = "ok"
       IN
       /\ counted => h_solves < MaxSolves
       /\ probabilistic_deadlines' = b.map
       /\ crashed' = (b.res = "crash")
       /\ last' = Call("get_probability", deadline, b.res, b.val, b.inv, b.out)
       /\ h_stale' = IF b.out = "ok" THEN FALSE ELSE h_stale
       /\ h_solves' = IF counted THEN h_solves + 1 ELSE h_solves
       /\ h_gets' = IF deadline \in Keys /\ h_gets < 2 THEN h_gets + 1 ELSE h_gets
  /\ UNCHANGED <<kind, periodic, P, deadline_step, probability_solver, solved,
                 priority, Q, Ts, h_registered, h_inserted, h_ctor, h_ctor_period>>

\* set_solver without the reset of the solved flag
set_solver_keeps_solved(psd) ==
  [solver |-> psd, solved |-> solved, registered |-> psd]

\* void GenericTaskDescriptor::set_solver(psd): the pointer and the flag the
\* call leaves, and the solver that was told register_task(this)
set_solver_body(psd) ==
  [solver |-> psd, solved |-> FALSE, registered |-> psd]

set_solver ==
  /\ kind # "none" /\ ~crashed
  /\ UNCHANGED others
  /\ \E psd \in Solvers :
       LET b == set_solver_body(psd) IN
       /\ probability_solver' = b.solver
       /\ solved' = b.solved
       /\ h_registered' = h_registered \cup {b.registered}
       /\ last' = Plain("set_solver", psd, "ok", NoVal)
  /\ h_solves' = 0
  /\ h_gets' = 0
  /\ UNCHANGED <<kind, periodic, P, deadline_step, probabilistic_deadlines,
                 priority, Q, Ts, crashed, h_inserted, h_stale, h_ctor,
                 h_ctor_period>>

\* get_period without the test of the periodic flag
get_period_unguarded ==
  [res |-> "ok", val |-> ToInt(P)]

\* int get_period() const
get_period_body ==
  IF ~periodic
  THEN [res |-> "NotPeriodic", val |-> NoVal]
  ELSE [res |-> "ok", val |-> ToInt(P)]

get_period ==
  /\ kind # "none" /\ ~crashed
  /\ UNCHANGED others
  /\ last' = Plain("get_period", NoVal, get_period_body.res, get_period_body.val)
  /\ UNCHANGED <<kind, generic, priority, Q, Ts, crashed, history>>

\* pmf * get_interarrival_time() const; the value returned is Z.get(), of
\* which the model keeps nothing
get_interarrival_time_body ==
  IF periodic
  THEN [res |-> "IsPeriodic", val |-> NoVal]
  ELSE [res |-> "ok", val |-> NoVal]

get_interarrival_time ==
  /\ kind # "none" /\ ~crashed
  /\ UNCHANGED others
  /\ last' = Plain("get_interarrival_time", NoVal, get_interarrival_time_body.res,
                   get_interarrival_time_body.val)
  /\ UNCHANGED <<kind, generic, priority, Q, Ts, crashed, history>>

(* ---------------------------------------------------------------------- *)
(* Scheduling parameters.                                                 *)
(* ---------------------------------------------------------------------- *)

\* unsigned int FixedPriorityTaskDescriptor::set_priority(priorityd): the
\* new priority and the value returned (the old priority)
set_priority_body(priorityd) ==
  [res |-> "ok", priority |-> priorityd, val |-> priority]

set_priority ==
  /\ kind = "fp" /\ ~crashed
  /\ UNCHANGED others
  /\ \E priorityd \in PriorityInputs :
       LET b == set_priority_body(priorityd) IN
       /\ priority' = b.priority
       /\ last' = Plain("set_priority", priorityd, b.res, b.val)
  /\ UNCHANGED <<kind, generic, Q, Ts, crashed, history>>

\* set_budget that also invalidates the cached probabilities
set_budget_invalidates ==
  /\ kind = "rr" /\ ~crashed
  /\ UNCHANGED others
  /\ \E Qd \in BudgetInputs :
       /\ Q' = IF RatioExceedsOne(Qd, Ts) THEN Q ELSE Qd
       /\ last' = Plain("set_budget", Qd,
                        IF RatioExceedsOne(Qd, Ts) THEN "BudgetTooLarge" ELSE "ok", NoVal)
  /\ solved' = FALSE
  /\ UNCHANGED <<kind, periodic, P, deadline_step, probabilistic_deadlines,
                 probability_solver, priority, Ts, crashed, history>>

\* void ResourceReservationTaskDescriptor::set_budget(Qd)
set_budget_body(Qd) ==
  IF RatioExceedsOne(Qd, Ts)
  THEN [res |-> "BudgetTooLarge", Q |-> Q]
  ELSE [res |-> "ok", Q |-> Qd]

set_budget ==
  /\ kind = "rr" /\ ~crashed
  /\ UNCHANGED others
  /\ \E Qd \in BudgetInputs :
       LET b == set_budget_body(Qd) IN
       /\ Q' = b.Q
       /\ last' = Plain("set_budget", Qd, b.res, NoVal)
  /\ UNCHANGED <<kind, generic, priority, Ts, crashed, history>>

\* int ResourceReservationTaskDescriptor::set_server_period(Tsd): it has no
\* return statement, so once Ts is assigned the behaviour is undefined and
\* `ub` is how the call ended
set_server_period_body(Tsd, ub) ==
  IF RatioExceedsOne(Q, Tsd) \/ ub = "throws"
  THEN [res |-> "ServerPeriodTooSmall", Ts |-> Ts]
  ELSE [res |-> IF ub = "crash" THEN "crash" ELSE "ok", Ts |-> Tsd]

set_server_period ==
  /\ kind = "rr" /\ ~crashed
  /\ UNCHANGED others
  /\ \E Tsd \in BudgetInputs, ub \in MissingReturnOutcomes :
       LET b == set_server_period_body(Tsd, ub) IN
       /\ Ts' = b.Ts
       /\ crashed' = (b.res = "crash")
       /\ last' = Plain("set_server_period", Tsd, b.res, NoVal)
  /\ UNCHANGED <<kind, generic, priority, Q, history>>

Next ==
  \/ FixedPriorityAperiodic
  \/ FixedPriorityPeriodic
  \/ ResourceReservation
  \/ insert_deadline
  \/ compute_probability
  \/ get_probability
  \/ set_solver
  \/ get_period
  \/ get_interarrival_time
  \/ set_priority
  \/ set_budget
  \/ set_server_period

Spec == Init /\ [][Next]_vars

(* ---------------------------------------------------------------------- *)
(* Properties.                                                            *)
(* ---------------------------------------------------------------------- *)

\* a solver was attached with set_solver
Attached == probability_solver \in Solvers

\* d is an exact multiple of step
IsMultiple(d, step) == \E k \in 0..d : d = k * step

\* C1: with a solver attached and a deadline registered, the get_probability
\* calls made since the last insert_deadline or set_solver have the solver
\* solve at most once: after one call has solved and returned a probability,
\* a further call returns the cached value without a solve.
C1_SolvesAtMostOnce ==
  (Attached /\ Keys # {}) => h_solves <= 1

\* C2: get_probability never returns a stale or placeholder value: whenever it
\* returns a probability, a solve has succeeded since the most recent
\* successful insert_deadline.
C2_NeverStale ==
  (last.op = "get_probability" /\ last.res = "ok") => ~h_stale

\* C3: insert_deadline(d) succeeds if and only if d is a multiple of
\* deadline_step and d is not yet a key of the map; on success d is added
\* with the placeholder probability and the other entries are kept; a
\* non-multiple fails with "wrong deadline", a repeat with "cannot create",
\* and on a failure the map is what it was.
C3_InsertIff ==
  [][last'.op = "insert_deadline" =>
       LET d == last'.arg
           ok == IsMultiple(d, deadline_step) /\ d \notin Keys
       IN /\ (last'.res = "ok") <=> ok
          /\ ok => /\ DOMAIN probabilistic_deadlines' = Keys \cup {d}
                   /\ probabilistic_deadlines'[d] = Placeholder
                   /\ \A k \in Keys : probabilistic_deadlines'[k] = probabilistic_deadlines[k]
          /\ ~IsMultiple(d, deadline_step) => last'.res = "WrongDeadline"
          /\ (IsMultiple(d, deadline_step) /\ d \in Keys) => last'.res = "CannotCreate"
          /\ ~ok => probabilistic_deadlines' = probabilistic_deadlines
    ]_vars

\* C4: set_solver(s) always resets cache validity: right after it solved is
\* false, the pointer is s and s was told register_task; and the next
\* get_probability on a registered deadline calls solve on s.
C4_SetSolverResets ==
  [][/\ last'.op = "set_solver" =>
          /\ solved' = FALSE
          /\ probability_solver' = last'.arg
          /\ last'.arg \in h_registered'
     /\ (last'.op = "get_probability" /\ Attached /\ h_gets = 0 /\ last'.arg \in Keys) =>
          /\ last'.inv = probability_solver
          /\ last'.out # "none"
    ]_vars

\* C4 happens: a task that a first solver had solved for was given the other
\* solver, and the first get_probability after that had the new solver solve
C4_Witness ==
  /\ last.op = "get_probability" /\ last.res = "ok"
  /\ h_gets = 1
  /\ h_registered = Solvers
  /\ last.inv = probability_solver /\ last.out = "ok"

\* C5: the priority of a FixedPriorityTaskDescriptor is in 0..99 in every
\* reachable state.
C5_PriorityInRange ==
  kind = "fp" => priority \in 0..MaxPriority

\* double(q)/double(t) <= 1.0 in IEEE-754 arithmetic (false for NaN)
RatioAtMostOne(q, t) ==
  IF t = 0 THEN q < 0
  ELSE IF t > 0 THEN q <= t
  ELSE q >= t

\* C6: budget/serverPeriod <= 1.0 holds of a ResourceReservationTaskDescriptor
\* in every reachable state, and a set_budget or set_server_period that fails
\* leaves both budget and server period as they were.
C6_RatioAtMostOne ==
  [][/\ kind' = "rr" => RatioAtMostOne(Q', Ts')
     /\ (last'.op \in {"set_budget", "set_server_period"} /\ last'.res # "ok"
         /\ last'.res # "crash") => (Q' = Q /\ Ts' = Ts)
    ]_vars

\* C7: a failure of the solver's solve is surfaced to the caller of
\* compute_probability / get_probability: the call ends with the solver's
\* failure, returns no probability and leaves the task unsolved, and a
\* get_probability that follows calls solve again.
C7_SolverFailureSurfaces ==
  [][/\ last'.out = "failed" =>
          /\ last'.res = "SolverFailed"
          /\ last'.val = NoVal
          /\ solved' = FALSE
     /\ (last.out = "failed" /\ last'.op = "get_probability") =>
          (last'.inv = probability_solver /\ last'.out # "none")
    ]_vars

\* C7 happens: the attached solver failed in a get_probability on a
\* registered deadline
C7_Witness ==
  /\ last.op = "get_probability" /\ last.arg \in Keys
  /\ last.out = "failed" /\ last.inv \in Solvers
  /\ last.res = "SolverFailed"

\* C8: compute_probability, and get_probability on an unsolved task, fail
\* with "solver unset" / "no deadline" when no solver was attached or no
\* deadline is registered; the solver is not called and the map and the
\* solved flag are unchanged.
C8_PreconditionViolation ==
  [][((last'.op = "compute_probability" \/ (last'.op = "get_probability" /\ ~solved))
       /\ (~Attached \/ Keys = {})) =>
          /\ last'.res \in {"SolverUnset", "NoDeadline"}
          /\ last'.inv = NullSolver
          /\ probabilistic_deadlines' = probabilistic_deadlines
          /\ solved' = solved
    ]_vars

\* C9 as claimed: with a solver attached and a deadline registered,
\* get_probability(d) fails with "does not exist" iff d was never inserted,
\* otherwise it returns the probability the map holds for d; the keys are
\* unchanged.
C9_NotFoundIff ==
  [][(last'.op = "get_probability" /\ Attached /\ Keys # {}) =>
       LET d == last'.arg IN
          /\ (last'.res = "NotExist") <=> (d \notin h_inserted)
          /\ d \in h_inserted =>
               (last'.res = "ok" /\ last'.val = probabilistic_deadlines'[d])
          /\ DOMAIN probabilistic_deadlines' = Keys
    ]_vars

\* C9 amended: with a solver attached and a deadline registered,
\* get_probability(d) whose solve does not fail ends with "does not exist"
\* iff d was never inserted, and otherwise returns the probability the map
\* holds for d; if the solve fails the call ends with the solver's failure;
\* in every case the keys are unchanged.
C9_NotFoundIffUnlessSolveFails ==
  [][(last'.op = "get_probability" /\ Attached /\ Keys # {}) =>
       LET d == last'.arg IN
          /\ last'.out # "failed" =>
               /\ (last'.res = "NotExist") <=> (d \notin h_inserted)
               /\ d \in h_inserted =>
                    (last'.res = "ok" /\ last'.val = probabilistic_deadlines'[d])
          /\ last'.out = "failed" => last'.res = "SolverFailed"
          /\ DOMAIN probabilistic_deadlines' = Keys
    ]_vars

\* C9 happens: with a solver attached and a deadline registered, a
\* get_probability of a deadline that was never inserted solved and then
\* failed with "does not exist"
C9_Witness ==
  /\ last.op = "get_probability" /\ last.res = "NotExist"
  /\ Attached /\ Keys # {}
  /\ last.arg \notin h_inserted
  /\ last.out = "ok"

C17_StepPositiveKeysMultiples ==
  (kind # "none" /\ (last.op = "insert_deadline" \/ Keys # {})) =>
     /\ deadline_step > 0
     /\ \A k \in Keys : IsMultiple(k, deadline_step)

\* C18: the budget and the server period of a
\* ResourceReservationTaskDescriptor are both strictly positive in every
\* reachable state.
C18_BudgetPeriodPositive ==
  kind = "rr" => (Q > 0 /\ Ts > 0)

\* the setters of the scheduling parameters
Mutators == {"set_priority", "set_budget", "set_server_period"}

\* C19: set_priority, set_budget and set_server_period, whether they succeed
\* or fail, leave the solved flag, the map and the solver pointer as they
\* were and call no solver (neither solve nor register_task); and a
\* constructed task goes from solved to unsolved only in an insert_deadline
\* or a set_solver.
C19_MutatorsKeepCache ==
  [][/\ last'.op \in Mutators =>
          /\ solved' = solved
          /\ probabilistic_deadlines' = probabilistic_deadlines
          /\ probability_solver' = probability_solver
          /\ last'.inv = NullSolver /\ last'.out = "none"
          /\ h_registered' = h_registered
     /\ (kind # "none" /\ solved /\ ~solved') =>
          last'.op \in {"insert_deadline", "set_solver"}
    ]_vars

\* C19 happens: a setter succeeded on a task that is solved and has a
\* deadline registered, and the task is still solved
C19_Witness ==
  /\ last.op \in Mutators /\ last.res = "ok"
  /\ solved /\ Keys # {}


(* ====================================================================== *)
(* The QoS functions and their builders (standard_qosfun.cpp).            *)
(* ====================================================================== *)
\* the doubles the calls below are made with
ScaleInputs == {NaN, 0 - 1, 0, 2, 3}
LimitInputs == {NaN, 0 - 2, 0, 4, 6, 10, 12, 18, One, One + 2}
OffsetInputs == {0, One}
ProbInputs == {0 - 2, 0, 2, 4, 6, 8, 10, 12, 14, 16, 18, 19, One, One + 2}
\* the concrete types of a parameter bundle: the one parse_parameters of
\* LinearQoSFunBuilder returns, and any other subclass of QoSFunParameters
BundleTypes == {"LinearQoSFunParameters", "OtherQoSFunParameters"}
Bundles == [type : BundleTypes, scale : ScaleInputs, pmin : LimitInputs,
            pmax : LimitInputs, offset : OffsetInputs]

\* the members the two constructors initialise (QuadraticQoSFun has no offset)
LinearQoSFun(scaled, pmind, pmaxd, offsetd) ==
  [type |-> "LinearQoSFun", scale |-> scaled, pmin |-> pmind, pmax |-> pmaxd,
   offset |-> offsetd]
QuadraticQoSFun(scaled, pmind, pmaxd) ==
  [type |-> "QuadraticQoSFun", scale |-> scaled, pmin |-> pmind,
   pmax |-> pmaxd, offset |-> 0]

\* the test both constructors make: (pmaxd<pmind)||(scaled<0)
WrongInitialisation(scaled, pmind, pmaxd) ==
  Less(pmaxd, pmind) \/ Less(scaled, 0)

\* the test both builders make on the limits of the bundle
WrongLimits(p) ==
  \/ Greater(p.pmin, p.pmax)
  \/ Less(p.pmin, 0) \/ Greater(p.pmin, One)
  \/ Less(p.pmax, 0) \/ Greater(p.pmax, One)

\* dynamic_cast<LinearQoSFunParameters*>(t) yields a non-null pointer
CastsToLinearQoSFunParameters(t) == t.type = "LinearQoSFunParameters"

\* what a call that constructs hands back: how it ended and the object
Made(res, f) == [res |-> res, fun |-> f]

\* new LinearQoSFun(...), new QuadraticQoSFun(...)
NewLinearQoSFun(scaled, pmind, pmaxd, offsetd) ==
  IF WrongInitialisation(scaled, pmind, pmaxd)
  THEN Made("wrong initialisation parameters", NoQoSFun)
  ELSE Made("ok", LinearQoSFun(scaled, pmind, pmaxd, offsetd))
NewQuadraticQoSFun(scaled, pmind, pmaxd) ==
  IF WrongInitialisation(scaled, pmind, pmaxd)
  THEN Made("wrong initialisation parameters", NoQoSFun)
  ELSE Made("ok", QuadraticQoSFun(scaled, pmind, pmaxd))

\* LinearQoSFunBuilder::create_instance without the test of the limits
LinearQoSFunBuilder_create_instance_unchecked(t) ==
  IF ~CastsToLinearQoSFunParameters(t)
  THEN Made("wrong parameter type", NoQoSFun)
  ELSE NewLinearQoSFun(t.scale, t.pmin, t.pmax, t.offset)

LinearQoSFunBuilder_create_instance(t) ==
  IF ~CastsToLinearQoSFunParameters(t)
  THEN Made("wrong parameter type", NoQoSFun)
  ELSE IF WrongLimits(t)
  THEN Made("wrong probability limits", NoQoSFun)
  ELSE NewLinearQoSFun(t.scale, t.pmin, t.pmax, t.offset)

QuadraticQoSFunBuilder_create_instance(t) ==
  IF ~CastsToLinearQoSFunParameters(t)
  THEN Made("wrong parameter type", NoQoSFun)
  ELSE IF WrongLimits(t)
  THEN Made("wrong probability limits", NoQoSFun)
  ELSE NewQuadraticQoSFun(t.scale, t.pmin, t.pmax)

\* LinearQoSFun::eval with the offset left out of the middle branch
LinearQoSFun_eval_no_offset(f, prob) ==
  IF LessEq(prob, f.pmin) THEN f.offset
  ELSE IF Greater(prob, f.pmax)
  THEN Add(f.offset, Mul(f.scale, Sub(f.pmax, f.pmin)))
  ELSE Mul(f.scale, Sub(prob, f.pmin))

LinearQoSFun_eval(f, prob) ==
  IF LessEq(prob, f.pmin) THEN f.offset
  ELSE IF Greater(prob, f.pmax)
  THEN Add(f.offset, Mul(f.scale, Sub(f.pmax, f.pmin)))
  ELSE Add(Mul(f.scale, Sub(prob, f.pmin)), f.offset)

\* QuadraticQoSFun::eval that never saturates
QuadraticQoSFun_eval_unsaturated(f, prob) ==
  IF LessEq(prob, f.pmin) THEN 0
  ELSE Mul(Mul(f.scale, Sub(prob, f.pmin)), Sub(prob, f.pmin))

QuadraticQoSFun_eval(f, prob) ==
  IF LessEq(prob, f.pmin) THEN 0
  ELSE IF Greater(prob, f.pmax)
  THEN Mul(Mul(f.scale, Sub(f.pmax, f.pmin)), Sub(f.pmax, f.pmin))
  ELSE Mul(Mul(f.scale, Sub(prob, f.pmin)), Sub(prob, f.pmin))

(* ---- the calls a client makes ---------------------------------------- *)
\* the variables a call to the QoS functions leaves alone
qosframe == <<task, registry, h_latest, h_init, t_pc, t_arg, t_found, t_res>>

\* the client holds no QoSFun and no call has been made since the last release
Idle == qlast.op = "none"

\* The client lets go of the auto_ptr it holds: the object is destroyed.
Release ==
  /\ ~Idle
  /\ qosfun' = NoQoSFun
  /\ qlast' = QCall("none", "none", NoBundle, 0, "ok", NoVal)
  /\ UNCHANGED qosframe

ConstructLinear ==
  /\ Idle
  /\ \E sc \in ScaleInputs, lo \in LimitInputs, hi \in LimitInputs,
        off \in OffsetInputs :
       LET m == NewLinearQoSFun(sc, lo, hi, off) IN
         /\ qosfun' = m.fun
         /\ qlast' = QCall("construct", "LinearQoSFun",
                           LinearQoSFun(sc, lo, hi, off), 0, m.res, NoVal)
  /\ UNCHANGED qosframe

ConstructQuadratic ==
  /\ Idle
  /\ \E sc \in ScaleInputs, lo \in LimitInputs, hi \in LimitInputs :
       LET m == NewQuadraticQoSFun(sc, lo, hi) IN
         /\ qosfun' = m.fun
         /\ qlast' = QCall("construct", "QuadraticQoSFun",
                           QuadraticQoSFun(sc, lo, hi), 0, m.res, NoVal)
  /\ UNCHANGED qosframe

LinearCreateInstance ==
  /\ Idle
  /\ \E t \in Bundles :
       LET m == LinearQoSFunBuilder_create_instance(t) IN
         /\ qosfun' = m.fun
         /\ qlast' = QCall("create_instance", "LinearQoSFunBuilder", t, 0,
                           m.res, NoVal)
  /\ UNCHANGED qosframe

QuadraticCreateInstance ==
  /\ Idle
  /\ \E t \in Bundles :
       LET m == QuadraticQoSFunBuilder_create_instance(t) IN
         /\ qosfun' = m.fun
         /\ qlast' = QCall("create_instance", "QuadraticQoSFunBuilder", t, 0,
                           m.res, NoVal)
  /\ UNCHANGED qosframe

LinearEval ==
  /\ qosfun.type = "LinearQoSFun"
  /\ \E prob \in ProbInputs :
       qlast' = QCall("eval", "LinearQoSFun", qosfun, prob, "ok",
                      LinearQoSFun_eval(qosfun, prob))
  /\ UNCHANGED <<qosfun, qosframe>>

QuadraticEval ==
  /\ qosfun.type = "QuadraticQoSFun"
  /\ \E prob \in ProbInputs :
       qlast' = QCall("eval", "QuadraticQoSFun", qosfun, prob, "ok",
                      QuadraticQoSFun_eval(qosfun, prob))
  /\ UNCHANGED <<qosfun, qosframe>>

NextQoS ==
  \/ ConstructLinear
  \/ ConstructQuadratic
  \/ LinearCreateInstance
  \/ QuadraticCreateInstance
  \/ LinearEval
  \/ QuadraticEval
  \/ Release

SpecQoS == Init /\ [][NextQoS]_vars


(* ---- properties of the builders and of eval -------------------------- *)
\* 0 <= pmin <= pmax <= 1 and scale >= 0
InDomain(f) ==
  /\ LessEq(0, f.pmin) /\ LessEq(f.pmin, f.pmax) /\ LessEq(f.pmax, One)
  /\ LessEq(0, f.scale)
\* the parameters a constructor accepts when they are numbers
ValidQoSFun(f) ==
  /\ f.scale # NaN /\ f.pmin # NaN /\ f.pmax # NaN /\ f.offset # NaN
  /\ f.scale >= 0 /\ f.pmin <= f.pmax

\* C11: create_instance of either builder fails whenever pmin > pmax, pmin or
\* pmax is outside [0,1], or scale < 0, and constructs the function
\* otherwise; so every QoSFun a builder returns has 0 <= pmin <= pmax <= 1
\* and scale >= 0.
C11_BuilderValidates ==
  [][qlast'.op = "create_instance" =>
       LET t == qlast'.par IN
         /\ ~InDomain(t) => qlast'.res # "ok"
         /\ (InDomain(t) /\ t.type = "LinearQoSFunParameters") =>
               /\ qlast'.res = "ok"
               /\ qosfun'.scale = t.scale
               /\ qosfun'.pmin = t.pmin /\ qosfun'.pmax = t.pmax
         /\ qlast'.res = "ok" => InDomain(qosfun')
    ]_vars

\* the three values section 8 gives for LinearQoSFun(2, 0.5, 0.9, 1)
LinearExample == LinearQoSFun(2, 10, 18, One)
\* C12: for a valid LinearQoSFun, eval(p) is offset below pmin,
\* scale*(p-pmin)+offset from pmin to pmax and offset+scale*(pmax-pmin) above
\* pmax; the branches agree at pmin and at pmax; LinearQoSFun(2,0.5,0.9,1)
\* gives 1 at 0.3, 1.4 at 0.7 and 1.8 at 0.95.
C12_LinearEval ==
  [][(qlast'.op = "eval" /\ qlast'.who = "LinearQoSFun" /\ ValidQoSFun(qosfun)) =>
       LET f == qosfun
           p == qlast'.prob
           v == qlast'.val
       IN
         /\ qosfun' = f /\ qlast'.res = "ok"
         /\ p < f.pmin => v = f.offset
         /\ (f.pmin <= p /\ p <= f.pmax) => v = f.scale * (p - f.pmin) + f.offset
         /\ p > f.pmax => v = f.offset + f.scale * (f.pmax - f.pmin)
         /\ p = f.pmin => v = f.offset
         /\ p = f.pmax => v = f.offset + f.scale * (f.pmax - f.pmin)
         /\ f = LinearExample =>
               /\ p = 6 => v = One
               /\ p = 14 => v = One + 8
               /\ p = 19 => v = One + 16
    ]_vars
C12_Witness ==
  /\ qlast.op = "eval" /\ qosfun = LinearExample
  /\ qlast.prob = 14 /\ qlast.val = One + 8

\* the three values section 8 gives for QuadraticQoSFun(3, 0.2, 0.6)
QuadraticExample == QuadraticQoSFun(3, 4, 12)
\* C13: for a valid QuadraticQoSFun, eval(p) is 0 below pmin,
\* scale*(p-pmin)^2 from pmin to pmax and scale*(pmax-pmin)^2 above pmax; the
\* branches agree at pmin and at pmax; QuadraticQoSFun(3,0.2,0.6) gives 0 at
\* 0.1, 0.12 at 0.4 and 0.48 at 0.8 (48 and 192 squared ticks).
C13_QuadraticEval ==
  [][(qlast'.op = "eval" /\ qlast'.who = "QuadraticQoSFun" /\ ValidQoSFun(qosfun)) =>
       LET f == qosfun
           p == qlast'.prob
           v == qlast'.val
       IN
         /\ qosfun' = f /\ qlast'.res = "ok"
         /\ p < f.pmin => v = 0
         /\ (f.pmin <= p /\ p <= f.pmax) => v = f.scale * (p - f.pmin) * (p - f.pmin)
         /\ p > f.pmax => v = f.scale * (f.pmax - f.pmin) * (f.pmax - f.pmin)
         /\ p = f.pmin => v = 0
         /\ p = f.pmax => v = f.scale * (f.pmax - f.pmin) * (f.pmax - f.pmin)
         /\ f = QuadraticExample =>
               /\ p = 2 => v = 0
               /\ p = 8 => v = 48
               /\ p = 16 => v = 192
    ]_vars
C13_Witness ==
  /\ qlast.op = "eval" /\ qosfun = QuadraticExample
  /\ qlast.prob = 16 /\ qlast.val = 192

\* the builder whose parse_parameters returns bundles of this type
BelongsTo(type) ==
  IF type = "LinearQoSFunParameters" THEN "LinearQoSFunBuilder" ELSE "none"
\* C14: create_instance called with a bundle whose concrete type is not the
\* builder's own fails with "wrong parameter type"; QuadraticQoSFunBuilder
\* does not accept a bundle that belongs to LinearQoSFunBuilder.
C14_ForeignBundleRejected ==
  [][(qlast'.op = "create_instance" /\ BelongsTo(qlast'.par.type) # qlast'.who) =>
       /\ qlast'.res = "wrong parameter type"
       /\ qosfun' = NoQoSFun
    ]_vars


(* ====================================================================== *)
(* The registry of QoS function builders (QoSFactory::qos_fun_factory)    *)
(* and the registrations StandardQoSFun::init() makes.                    *)
(* ====================================================================== *)
\* the text of a field QueryDoubleText cannot convert
Garbled == 0 - 997
\* the values a double may hold when QueryDoubleText has not assigned it
Indeterminate == {NaN, 0, One + 2}

TypeNames == {"linear", "quadratic", "unknown-type"}
Builders == {"LinearQoSFunBuilder", "QuadraticQoSFunBuilder"}
\* the configuration elements create is called with
Configs == [type : {"XMLElement"}, scale : {Missing, Garbled, 0 - 1, 2},
            pmin : {Missing, 4, One + 2}, pmax : {Missing, Garbled, 12},
            offset : {Missing, One}]

\* QueryDoubleText(&x) on the text of a field
QueryDoubleText(v) == IF v = Garbled THEN Indeterminate ELSE {v}
\* what parse_parameters hands back: how it ended and the bundle
Parsed(res, t) == [res |-> res, bundle |-> t]

\* LinearQoSFunBuilder::parse_parameters: every way the call can end
LinearQoSFunBuilder_parse_parameters(cfg) ==
  IF cfg.scale = Missing
  THEN {Parsed("scale parameter undefined for qos function", NoBundle)}
  ELSE IF cfg.pmin = Missing
  THEN {Parsed("parameter pmin undefined for qos function", NoBundle)}
  ELSE IF cfg.pmax = Missing
  THEN {Parsed("parameter pmax undefined for qos function", NoBundle)}
  ELSE {Parsed("ok", [type |-> "LinearQoSFunParameters", scale |-> sc,
                      pmin |-> lo, pmax |-> hi, offset |-> off]) :
          sc \in QueryDoubleText(cfg.scale), lo \in QueryDoubleText(cfg.pmin),
          hi \in QueryDoubleText(cfg.pmax),
          off \in IF cfg.offset = Missing THEN {0}
                  ELSE QueryDoubleText(cfg.offset)}

\* QuadraticQoSFunBuilder::parse_parameters reads the same fields
QuadraticQoSFunBuilder_parse_parameters(cfg) ==
  LinearQoSFunBuilder_parse_parameters(cfg)

\* the virtual calls on a registered builder
parse_parameters(b, cfg) ==
  IF b = "LinearQoSFunBuilder" THEN LinearQoSFunBuilder_parse_parameters(cfg)
  ELSE QuadraticQoSFunBuilder_parse_parameters(cfg)
create_instance(b, t) ==
  IF b = "LinearQoSFunBuilder" THEN LinearQoSFunBuilder_create_instance(t)
  ELSE QuadraticQoSFunBuilder_create_instance(t)

\* the map with the entry for name set to b
Registered(map, name, b) ==
  [n \in DOMAIN map \cup {name} |-> IF n = name THEN b ELSE map[n]]

\* the variables a call to the registry leaves alone
factoryframe == <<task, t_pc, t_arg, t_found, t_res>>

\* qos_fun_factory.register_type(name, b)
register_type ==
  /\ \E name \in TypeNames, b \in Builders :
       /\ registry' = Registered(registry, name, b)
       /\ h_latest' = Registered(h_latest, name, b)
       /\ qlast' = QCall("register_type", b, [NoBundle EXCEPT !.type = name],
                         0, "ok", NoVal)
  /\ UNCHANGED <<qosfun, h_init, factoryframe>>

\* StandardQoSFun::init() that registers the linear builder only
init_linear_only ==
  /\ registry' = Registered(registry, "linear", "LinearQoSFunBuilder")
  /\ h_latest' = Registered(h_latest, "linear", "LinearQoSFunBuilder")
  /\ h_init' = TRUE
  /\ qlast' = QCall("init", "none", NoBundle, 0, "ok", NoVal)
  /\ UNCHANGED <<qosfun, factoryframe>>

\* StandardQoSFun::init()
init ==
  /\ registry' = Registered(Registered(registry, "linear", "LinearQoSFunBuilder"),
                            "quadratic", "QuadraticQoSFunBuilder")
  /\ h_latest' = Registered(Registered(h_latest, "linear", "LinearQoSFunBuilder"),
                            "quadratic", "QuadraticQoSFunBuilder")
  /\ h_init' = TRUE
  /\ qlast' = QCall("init", "none", NoBundle, 0, "ok", NoVal)
  /\ UNCHANGED <<qosfun, factoryframe>>

\* create(name, cfg): look the builder up, parse, create the instance
create ==
  /\ Idle \/ qlast.op \in {"register_type", "init"}
  /\ \E name \in TypeNames, cfg \in Configs :
       LET arg == [cfg EXCEPT !.type = name] IN
         IF name \notin DOMAIN registry
         THEN /\ qosfun' = NoQoSFun
              /\ qlast' = QCall("create", "none", arg, 0, "UnknownType", NoVal)
         ELSE \E pr \in parse_parameters(registry[name], cfg) :
                LET m == IF pr.res = "ok"
                         THEN create_instance(registry[name], pr.bundle)
                         ELSE Made(pr.res, NoQoSFun)
                IN /\ qosfun' = m.fun
                   /\ qlast' = QCall("create", registry[name], arg, 0, m.res,
                                     NoVal)
  /\ UNCHANGED <<registry, h_latest, h_init, factoryframe>>

NextFactory ==
  \/ register_type
  \/ init
  \/ create
  \/ Release

SpecFactory == Init /\ [][NextFactory]_vars

\* C15: create(name, cfg) fails with UnknownType exactly when no builder was
\* ever registered under name; registrations are never taken back; once
\* init() has run, create under "linear" and "quadratic" reaches a builder;
\* registering a name again overwrites, and create uses the builder that was
\* registered last.
C15_Registry ==
  [][/\ \A n \in DOMAIN registry : n \in DOMAIN registry'
     /\ qlast'.op = "init" =>
          {"linear", "quadratic"} \subseteq DOMAIN registry'
     /\ qlast'.op = "create" =>
          LET name == qlast'.par.type IN
            /\ qlast'.res = "UnknownType" <=> name \notin DOMAIN h_latest
            /\ name \in DOMAIN h_latest => qlast'.who = h_latest[name]
            /\ (h_init /\ name \in {"linear", "quadratic"}) =>
                  qlast'.who \in Builders
            /\ (qlast'.res = "ok" /\ qlast'.who = "LinearQoSFunBuilder") =>
                  qosfun'.type = "LinearQoSFun"
            /\ (qlast'.res = "ok" /\ qlast'.who = "QuadraticQoSFunBuilder") =>
                  qosfun'.type = "QuadraticQoSFun"
    ]_vars
\* create("linear", cfg) after init() and a later registration of the
\* quadratic builder under "linear" has returned a QuadraticQoSFun
C15_Witness ==
  /\ h_init /\ qlast.op = "create" /\ qlast.par.type = "linear"
  /\ qlast.res = "ok" /\ qlast.who = "QuadraticQoSFunBuilder"
  /\ qosfun.type = "QuadraticQoSFun"


(* ====================================================================== *)
(* Two threads in get_probability / compute_probability on one task.      *)
(* A thread's position is the line of task_descriptor.cpp it executes     *)
(* next; each step reads or writes the shared members once.               *)
(* ====================================================================== *)
\* The task the threads share: constructed aperiodic with fixed priority,
\* deadline 0 registered, solver s attached by set_solver, not solved; no
\* thread has called yet.
InitThreads ==
  /\ kind = "fp" /\ periodic = FALSE /\ P = AperiodicP
  /\ deadline_step = InitialDeadlineStep
  /\ probabilistic_deadlines = [d \in {0} |-> Placeholder]
  /\ probability_solver \in Solvers
  /\ solved = FALSE
  /\ priority = 0 /\ Q = 0 /\ Ts = 0
  /\ crashed = FALSE
  /\ last = Plain("set_solver", probability_solver, "ok", NoVal)
  /\ h_registered = {probability_solver}
  /\ h_inserted = {0}
  /\ h_stale = TRUE
  /\ h_solves = 0 /\ h_gets = 0
  /\ h_ctor = "aperiodic" /\ h_ctor_period = AperiodicP
  /\ registry = NoBuilders /\ h_latest = NoBuilders /\ h_init = FALSE
  /\ qosfun = NoQoSFun
  /\ qlast = QCall("none", "none", NoBundle, 0, "ok", NoVal)
  /\ t_pc = [t \in Threads |-> "idle"]
  /\ t_arg = [t \in Threads |-> 0]
  /\ t_found = [t \in Threads |-> FALSE]
  /\ t_res = [t \in Threads |-> "none"]

\* what the threads' steps leave alone
threadframe == <<kind, periodic, P, deadline_step, probability_solver, solved,
                 priority, Q, Ts, last, history, registry, h_latest, h_init,
                 qosfun, qlast>>

\* thread t goes to line pc
Goto(t, pc) == t_pc' = [t_pc EXCEPT ![t] = pc]
\* the call of thread t ends as res
Ends(t, res) ==
  /\ t_pc' = [t_pc EXCEPT ![t] = "idle"]
  /\ t_res' = [t_res EXCEPT ![t] = res]
\* another thread is inside solve, writing the map solve was given
Racing(t) == \E u \in Threads \ {t} : t_pc[u] = "line23"

\* get_probability(deadline), line 30: it = probabilistic_deadlines.find(deadline)
gp_find ==
  \E t \in Threads, deadline \in Deadlines :
    /\ ~crashed /\ t_pc[t] = "idle"
    /\ t_arg' = [t_arg EXCEPT ![t] = deadline]
    /\ t_found' = [t_found EXCEPT ![t] = deadline \in Keys]
    /\ Goto(t, "line31")
    /\ UNCHANGED <<probabilistic_deadlines, crashed, t_res, threadframe>>

\* a direct call of compute_probability()
cp_call ==
  \E t \in Threads :
    /\ ~crashed /\ t_pc[t] = "idle"
    /\ t_arg' = [t_arg EXCEPT ![t] = NoVal]
    /\ t_found' = [t_found EXCEPT ![t] = FALSE]
    /\ Goto(t, "line15")
    /\ UNCHANGED <<probabilistic_deadlines, crashed, t_res, threadframe>>

\* line 31: if (!solved) compute_probability();
gp_test_solved ==
  \E t \in Threads :
    /\ ~crashed /\ t_pc[t] = "line31"
    /\ Goto(t, IF ~solved THEN "line15" ELSE "line33")
    /\ UNCHANGED <<probabilistic_deadlines, crashed, t_arg, t_found, t_res,
                   threadframe>>

\* lines 15-20: no solver set, no deadline specified
cp_preconditions ==
  \E t \in Threads :
    /\ ~crashed /\ t_pc[t] = "line15"
    /\ IF probability_solver = NullSolver THEN Ends(t, "SolverUnset")
       ELSE IF Keys = {} THEN Ends(t, "NoDeadline")
       ELSE Goto(t, "line21") /\ UNCHANGED t_res
    /\ UNCHANGED <<probabilistic_deadlines, crashed, t_arg, t_found,
                   threadframe>>

\* lines 21-23: if (solved) return; otherwise call probability_solver->solve
cp_test_solved ==
  \E t \in Threads :
    /\ ~crashed /\ t_pc[t] = "line21"
    /\ IF ~solved THEN Goto(t, "line23") /\ UNCHANGED t_res
       ELSE IF t_arg[t] = NoVal THEN Ends(t, "ok")
       ELSE Goto(t, "line33") /\ UNCHANGED t_res
    /\ UNCHANGED <<probabilistic_deadlines, crashed, t_arg, t_found,
                   threadframe>>

\* lines 23-25: solve returns or throws; solved is not assigned.  Two
\* threads inside solve write the same map unsynchronised, which may also
\* end the program.
cp_solve ==
  \E t \in Threads :
    /\ ~crashed /\ t_pc[t] = "line23"
    /\ \E out \in SolveOutcomes(probability_solver) \cup
                  (IF Racing(t) THEN {"crash"} ELSE {}),
          v \in SolveValues(probability_solver) :
         LET c == solve(probability_solver, out, v) IN
           /\ probabilistic_deadlines' = c.map
           /\ crashed' = (c.res = "crash")
           /\ IF c.res # "ok" THEN Ends(t, c.res)
              ELSE IF t_arg[t] = NoVal THEN Ends(t, "ok")
              ELSE Goto(t, "line33") /\ UNCHANGED t_res
    /\ UNCHANGED <<t_arg, t_found, threadframe>>

\* lines 33-35: the deadline does not exist, or return it->second
gp_return ==
  \E t \in Threads :
    /\ ~crashed /\ t_pc[t] = "line33"
    /\ Ends(t, IF t_found[t] THEN "ok" ELSE "NotExist")
    /\ UNCHANGED <<probabilistic_deadlines, crashed, t_arg, t_found,
                   threadframe>>

NextThreads ==
  \/ gp_find
  \/ cp_call
  \/ gp_test_solved
  \/ cp_preconditions
  \/ cp_test_solved
  \/ cp_solve
  \/ gp_return

SpecThreads == InitThreads /\ [][NextThreads]_vars

\* C16: when two threads call get_probability or compute_probability on the
\* same unsolved task with a solver and deadlines, the accesses are
\* serialized: the two threads are never both inside solve, each having
\* found solved = false.
C16_SolveSerialized ==
  ~(\A t \in Threads : t_pc[t] = "line23")

====
